---- MODULE Spec2Model ----
(***************************************************************************)
(* Campus Social API (src/main.py, src/schemas.py): the request handlers,  *)
(* the public-view sanitizer and the credential subsystem, over a document *)
(* store.  Every handler but register makes one store call and is one      *)
(* action; register makes three (duplicate check, insert, re-read) and is  *)
(* three actions, so that concurrently handled requests interleave at its  *)
(* store calls.                                                            *)
(*                                                                         *)
(* database.py (create_document, get_documents) is not among the sources;  *)
(* both are modelled from the specification's section 4.2.  The store is   *)
(* taken to be reachable (no StorageUnavailable).                          *)
(***************************************************************************)
EXTENDS Integers, Sequences, FiniteSets, TLC

\* ---------------------------------------------------------------- bounds
MaxDocs == 2

\* ------------------------------------------------------ program constants
DefaultLimit == 50
LikesDefaultLimit == 100

\* ------------------------------------------------------------ input sets
\* The requests handled concurrently: two slots, as the races need.
Procs == {"r1", "r2"}
Names == {"A"}
Emails == {"a@x.com", "b@x.com"}
Passwords == {"p", "q"}
GroupIds == {"g1", "g2"}
PostIds == {"p1", "p2"}
Limits == {-1, 1, DefaultLimit}
LikeLimits == {-1, 1, LikesDefaultLimit}
Collections == {"user", "group", "post", "comment", "like"}

\* ------------------------------------------------------- python values
\* Python's None.
NoneVal == [kind |-> "None"]

\* bson.ObjectId with the n-th generated value.
ObjectIdOf(n) == [kind |-> "ObjectId", n |-> n]

\* isinstance(v, ObjectId)
IsObjectId(v) == v.kind = "ObjectId"

\* str(oid): the hex string of an ObjectId, a value of another type.
str(oid) == [kind |-> "str", hex |-> oid.n]

\* ObjectId(uid): parses the hex string back.
ObjectId(uid) == [kind |-> "ObjectId", n |-> uid.hex]

\* hashlib.sha256(password.encode()).hexdigest(): a fixed-length digest,
\* distinct for distinct passwords of the input set.
sha256_hexdigest(password) == "sha256:" \o password

\* dict helpers: d[k] = v on a copy, and d.pop(k, None).
Put(d, k, v) == [f \in DOMAIN d \cup {k} |-> IF f = k THEN v ELSE d[f]]
Pop(d, k) == [f \in DOMAIN d \ {k} |-> d[f]]

\* ------------------------------------------------------------- schemas
\* User(**kw): pydantic keeps the declared fields (name, email, avatar_url,
\* role), fills the defaults and ignores any other keyword: the model has
\* no password_hash field, so a password_hash keyword is dropped.
User(kw) ==
    [name |-> kw.name,
     email |-> kw.email,
     avatar_url |-> IF "avatar_url" \in DOMAIN kw THEN kw.avatar_url ELSE NoneVal,
     role |-> IF "role" \in DOMAIN kw THEN kw.role ELSE "user"]

Group(kw) ==
    [name |-> kw.name,
     description |-> IF "description" \in DOMAIN kw THEN kw.description ELSE NoneVal,
     created_by |-> kw.created_by]

Post(kw) == [group_id |-> kw.group_id, author_id |-> kw.author_id, content |-> kw.content]

Comment(kw) == [post_id |-> kw.post_id, author_id |-> kw.author_id, content |-> kw.content]

Like(kw) == [post_id |-> kw.post_id, user_id |-> kw.user_id]

\* The validated bodies the handlers receive.
UserBodies == {User([name |-> n, email |-> e, role |-> r]) :
                 n \in Names, e \in Emails, r \in {"admin"}}
GroupBodies == {Group([name |-> "G", created_by |-> "u1"])}
PostBodies == {Post([group_id |-> "g1", author_id |-> "u1", content |-> "c"])}
CommentBodies == {Comment([post_id |-> "p1", author_id |-> "u1", content |-> "c"])}
LikeBodies == {Like([post_id |-> "p1", user_id |-> "u1"])}
RegisterRequests == [name : Names, email : Emails, password : Passwords]
LoginRequests == [email : Emails, password : Passwords]

\* ------------------------------------------------ document access layer
\* A filter matches a record whose named fields equal the filter's.
Matches(doc, filter) ==
    \A k \in DOMAIN filter : k \in DOMAIN doc /\ doc[k] = filter[k]

RECURSIVE SelectMatching(_, _)
SelectMatching(docs, filter) ==
    IF docs = <<>> THEN <<>>
    ELSE IF Matches(Head(docs), filter)
         THEN <<Head(docs)>> \o SelectMatching(Tail(docs), filter)
         ELSE SelectMatching(Tail(docs), filter)

\* The first `limit` elements of a sequence (none for a limit below 1).
Take(s, limit) ==
    IF limit >= Len(s) THEN s
    ELSE IF limit <= 0 THEN <<>>
    ELSE SubSeq(s, 1, limit)

\* get_documents(collection_name, filter, limit): up to `limit` of the
\* records of the collection that match, in storage order.
get_documents(st, collection_name, filter, limit) ==
    Take(SelectMatching(st[collection_name], filter), limit)

\* create_document(collection_name, entity): the entity's fields as a
\* record, inserted under a newly generated identifier, which is returned
\* as a string.
create_document(st, oid, collection_name, entity) ==
    [store |-> [st EXCEPT ![collection_name] =
                   Append(@, Put(entity, "_id", ObjectIdOf(oid)))],
     uid |-> str(ObjectIdOf(oid))]

\* ------------------------------------------------------------ sanitizer
to_public_NoStrip(doc) ==
    IF DOMAIN doc = {} THEN doc
    ELSE LET d0 == Pop(doc, "_id")
             id == IF "_id" \in DOMAIN doc THEN doc["_id"] ELSE NoneVal
         IN  IF IsObjectId(id) THEN Put(d0, "id", str(id)) ELSE d0

to_public_NoId(doc) ==
    IF DOMAIN doc = {} THEN doc
    ELSE Pop(Pop(doc, "_id"), "password_hash")

to_public_KeepStorageId(doc) ==
    IF DOMAIN doc = {} THEN doc
    ELSE LET id == IF "_id" \in DOMAIN doc THEN doc["_id"] ELSE NoneVal
             d1 == IF IsObjectId(id) THEN Put(doc, "id", str(id)) ELSE doc
         IN  IF "password_hash" \in DOMAIN d1 THEN Pop(d1, "password_hash") ELSE d1

to_public(doc) ==
    IF DOMAIN doc = {} THEN doc
    ELSE LET d0 == Pop(doc, "_id")
             id == IF "_id" \in DOMAIN doc THEN doc["_id"] ELSE NoneVal
             d1 == IF IsObjectId(id) THEN Put(d0, "id", str(id)) ELSE d0
         IN  IF "password_hash" \in DOMAIN d1 THEN Pop(d1, "password_hash") ELSE d1

\* The argument of to_public after the call: d = {**doc} copies, and the
\* pops act on the copy.
to_public_arg(doc) == doc

to_public_all(docs) == [i \in 1..Len(docs) |-> to_public(docs[i])]

\* ---------------------------------------------------------------- state
VARIABLES
    store,       \* collection name -> sequence of stored records
    nextOid,     \* the store's identifier generator
    pc,          \* per request slot: where its register handler stands
    req,         \* per request slot: the register request in flight
    uid,         \* per request slot: register's local uid
    last,        \* the response this step sent (NoResponse: none)
    registered   \* the <<email, password>> pairs register answered 200 for

vars == <<store, nextOid, pc, req, uid, last, registered>>

NoResponse == [op |-> "none", req |-> [none |-> TRUE], status |-> 0, detail |-> "", body |-> <<>>]

NoRequest == [name |-> "", email |-> "", password |-> ""]
NoUid == str(ObjectIdOf(0))

OK(op, r, body) == [op |-> op, req |-> r, status |-> 200, detail |-> "", body |-> body]
HTTPException(op, r, status_code, detail) ==
    [op |-> op, req |-> r, status |-> status_code, detail |-> detail, body |-> <<>>]

EmptyStore == [c \in Collections |-> <<>>]

Init ==
    /\ store = EmptyStore
    /\ nextOid = 1
    /\ pc = [p \in Procs |-> "idle"]
    /\ req = [p \in Procs |-> NoRequest]
    /\ uid = [p \in Procs |-> NoUid]
    /\ last = NoResponse
    /\ registered = {}

\* A store that already holds a user record carrying a credential field,
\* as the data model's User (name, email, avatar_url, role, password_hash).
StoredUser(e, pw) ==
    [_id |-> ObjectIdOf(1), name |-> "A", email |-> e, avatar_url |-> NoneVal,
     role |-> "user", password_hash |-> sha256_hexdigest(pw)]

InitStored ==
    /\ \E e \in Emails, pw \in Passwords :
          store = [EmptyStore EXCEPT !["user"] = <<StoredUser(e, pw)>>]
    /\ nextOid = 2
    /\ pc = [p \in Procs |-> "idle"]
    /\ req = [p \in Procs |-> NoRequest]
    /\ uid = [p \in Procs |-> NoUid]
    /\ last = NoResponse
    /\ registered = {}

\* ------------------------------------------------------------- register
\* Lines 102-104: the duplicate check, the handler's first store call.
register_check_NoDupCheck(p, r) ==
    /\ pc[p] = "idle"
    /\ pc' = [pc EXCEPT ![p] = "reg_insert"]
    /\ req' = [req EXCEPT ![p] = r]
    /\ last' = NoResponse
    /\ UNCHANGED <<store, nextOid, uid, registered>>

register_check(p, r) ==
    /\ pc[p] = "idle"
    /\ LET existing == get_documents(store, "user", [email |-> r.email], 1)
       IN  IF existing # <<>>
           THEN /\ last' = HTTPException("register", r, 400, "Email already registered")
                /\ UNCHANGED <<store, nextOid, pc, req, uid, registered>>
           ELSE /\ pc' = [pc EXCEPT ![p] = "reg_insert"]
                /\ req' = [req EXCEPT ![p] = r]
                /\ last' = NoResponse
                /\ UNCHANGED <<store, nextOid, uid, registered>>

\* Lines 105-107: digest, User(...), create_document.
register_insert(p) ==
    /\ pc[p] = "reg_insert"
    /\ nextOid <= MaxDocs
    /\ LET password_hash == sha256_hexdigest(req[p].password)
           user == User([name |-> req[p].name, email |-> req[p].email, role |-> "user",
                         avatar_url |-> NoneVal, password_hash |-> password_hash])
           made == create_document(store, nextOid, "user", user)
       IN  /\ store' = made.store
           /\ uid' = [uid EXCEPT ![p] = made.uid]
    /\ nextOid' = nextOid + 1
    /\ pc' = [pc EXCEPT ![p] = "reg_reread"]
    /\ last' = NoResponse
    /\ UNCHANGED <<req, registered>>

\* Lines 108-109: the re-read by identifier and the response.
register_reread(p) ==
    /\ pc[p] = "reg_reread"
    /\ LET created == get_documents(store, "user", [_id |-> ObjectId(uid[p])], 1)
       IN  last' = OK("register", req[p],
                      IF created # <<>>
                      THEN <<to_public(created[1])>>
                      ELSE <<[id |-> uid[p], name |-> req[p].name,
                              email |-> req[p].email, role |-> "user"]>>)
    /\ registered' = registered \cup {<<req[p].email, req[p].password>>}
    /\ pc' = [pc EXCEPT ![p] = "idle"]
    /\ req' = [req EXCEPT ![p] = NoRequest]
    /\ uid' = [uid EXCEPT ![p] = NoUid]
    /\ UNCHANGED <<store, nextOid>>

\* ---------------------------------------------------------------- login
login_NoPasswordCheck(r) ==
    /\ LET users == get_documents(store, "user", [email |-> r.email], 1)
       IN  last' = IF users = <<>>
                   THEN HTTPException("login", r, 401, "Invalid credentials")
                   ELSE OK("login", r, <<to_public(users[1])>>)
    /\ UNCHANGED <<store, nextOid, pc, req, uid, registered>>

login(r) ==
    /\ LET users == get_documents(store, "user", [email |-> r.email], 1)
           password_hash == sha256_hexdigest(r.password)
       IN  last' =
             IF users = <<>>
             THEN HTTPException("login", r, 401, "Invalid credentials")
             ELSE LET u == users[1]
                  IN  \* u.get("password_hash") is None when the field is absent
                      IF \/ "password_hash" \notin DOMAIN u
                         \/ u["password_hash"] # password_hash
                      THEN HTTPException("login", r, 401, "Invalid credentials")
                      ELSE OK("login", r, <<to_public(u)>>)
    /\ UNCHANGED <<store, nextOid, pc, req, uid, registered>>

\* ---------------------------------------------------------------- users
create_user(user) ==
    /\ nextOid <= MaxDocs
    /\ LET made == create_document(store, nextOid, "user", user)
       IN  /\ store' = made.store
           /\ last' = OK("create_user", [entity |-> user], <<[id |-> made.uid]>>)
    /\ nextOid' = nextOid + 1
    /\ UNCHANGED <<pc, req, uid, registered>>

list_users(limit) ==
    /\ LET users == get_documents(store, "user", <<>>, limit)
       IN  last' = OK("list_users", [limit |-> limit], to_public_all(users))
    /\ UNCHANGED <<store, nextOid, pc, req, uid, registered>>

\* --------------------------------------------------------------- groups
\* get_auth(role)(): 403 for a role outside the three known ones, else the
\* default AuthInfo; nothing is checked against the caller.
get_auth(role) ==
    IF role # NoneVal /\ role \notin {[kind |-> "role", v |-> "user"],
                                      [kind |-> "role", v |-> "moderator"],
                                      [kind |-> "role", v |-> "admin"]}
    THEN [status |-> 403, role |-> "user"]
    ELSE [status |-> 200, role |-> "user"]

create_group(group) ==
    /\ get_auth([kind |-> "role", v |-> "moderator"]).status = 200
    /\ nextOid <= MaxDocs
    /\ LET made == create_document(store, nextOid, "group", group)
       IN  /\ store' = made.store
           /\ last' = OK("create_group", [entity |-> group], <<[id |-> made.uid]>>)
    /\ nextOid' = nextOid + 1
    /\ UNCHANGED <<pc, req, uid, registered>>

list_groups(limit) ==
    /\ LET groups == get_documents(store, "group", <<>>, limit)
       IN  last' = OK("list_groups", [limit |-> limit], to_public_all(groups))
    /\ UNCHANGED <<store, nextOid, pc, req, uid, registered>>

\* ---------------------------------------------------------------- posts
create_post_NoPathCheck(group_id, post) ==
    /\ nextOid <= MaxDocs
    /\ LET made == create_document(store, nextOid, "post", post)
       IN  /\ store' = made.store
           /\ last' = OK("create_post", [path |-> group_id, entity |-> post],
                         <<[id |-> made.uid]>>)
    /\ nextOid' = nextOid + 1
    /\ UNCHANGED <<pc, req, uid, registered>>

create_post(group_id, post) ==
    IF group_id # post.group_id
    THEN /\ last' = HTTPException("create_post", [path |-> group_id, entity |-> post],
                                  400, "Group ID mismatch")
         /\ UNCHANGED <<store, nextOid, pc, req, uid, registered>>
    ELSE /\ nextOid <= MaxDocs
         /\ LET made == create_document(store, nextOid, "post", post)
            IN  /\ store' = made.store
                /\ last' = OK("create_post", [path |-> group_id, entity |-> post],
                              <<[id |-> made.uid]>>)
         /\ nextOid' = nextOid + 1
         /\ UNCHANGED <<pc, req, uid, registered>>

list_posts(group_id, limit) ==
    /\ LET posts == get_documents(store, "post", [group_id |-> group_id], limit)
       IN  last' = OK("list_posts", [path |-> group_id, limit |-> limit],
                      to_public_all(posts))
    /\ UNCHANGED <<store, nextOid, pc, req, uid, registered>>

\* ------------------------------------------------------------- comments
create_comment(post_id, comment) ==
    IF post_id # comment.post_id
    THEN /\ last' = HTTPException("create_comment", [path |-> post_id, entity |-> comment],
                                  400, "Post ID mismatch")
         /\ UNCHANGED <<store, nextOid, pc, req, uid, registered>>
    ELSE /\ nextOid <= MaxDocs
         /\ LET made == create_document(store, nextOid, "comment", comment)
            IN  /\ store' = made.store
                /\ last' = OK("create_comment", [path |-> post_id, entity |-> comment],
                              <<[id |-> made.uid]>>)
         /\ nextOid' = nextOid + 1
         /\ UNCHANGED <<pc, req, uid, registered>>

list_comments(post_id, limit) ==
    /\ LET comments == get_documents(store, "comment", [post_id |-> post_id], limit)
       IN  last' = OK("list_comments", [path |-> post_id, limit |-> limit],
                      to_public_all(comments))
    /\ UNCHANGED <<store, nextOid, pc, req, uid, registered>>

\* ---------------------------------------------------------------- likes
like_post(post_id, like) ==
    IF post_id # like.post_id
    THEN /\ last' = HTTPException("like_post", [path |-> post_id, entity |-> like],
                                  400, "Post ID mismatch")
         /\ UNCHANGED <<store, nextOid, pc, req, uid, registered>>
    ELSE /\ nextOid <= MaxDocs
         /\ LET made == create_document(store, nextOid, "like", like)
            IN  /\ store' = made.store
                /\ last' = OK("like_post", [path |-> post_id, entity |-> like],
                              <<[id |-> made.uid]>>)
         /\ nextOid' = nextOid + 1
         /\ UNCHANGED <<pc, req, uid, registered>>

list_likes(post_id, limit) ==
    /\ LET likes == get_documents(store, "like", [post_id |-> post_id], limit)
       IN  last' = OK("list_likes", [path |-> post_id, limit |-> limit],
                      to_public_all(likes))
    /\ UNCHANGED <<store, nextOid, pc, req, uid, registered>>

\* -------------------------------------------------------- specification
Register == \E p \in Procs, r \in RegisterRequests : register_check(p, r)
RegisterInsert == \E p \in Procs : register_insert(p)
RegisterReread == \E p \in Procs : register_reread(p)
Login == \E r \in LoginRequests : login(r)
CreateUser == \E user \in UserBodies : create_user(user)
ListUsers == \E limit \in Limits : list_users(limit)
CreateGroup == \E group \in GroupBodies : create_group(group)
ListGroups == \E limit \in Limits : list_groups(limit)
CreatePost == \E g \in GroupIds, post \in PostBodies : create_post(g, post)
ListPosts == \E g \in GroupIds, limit \in Limits : list_posts(g, limit)
CreateComment == \E q \in PostIds, comment \in CommentBodies : create_comment(q, comment)
ListComments == \E q \in PostIds, limit \in Limits : list_comments(q, limit)
LikePost == \E q \in PostIds, like \in LikeBodies : like_post(q, like)
ListLikes == \E q \in PostIds, limit \in LikeLimits : list_likes(q, limit)

Next ==
    \/ Register
    \/ RegisterInsert
    \/ RegisterReread
    \/ Login
    \/ CreateUser
    \/ ListUsers
    \/ CreateGroup
    \/ ListGroups
    \/ CreatePost
    \/ ListPosts
    \/ CreateComment
    \/ ListComments
    \/ LikePost
    \/ ListLikes

Spec == Init /\ [][Next]_vars

SpecStored == InitStored /\ [][Next]_vars

\* ================================================================ claims
ListOps == {"list_users", "list_groups", "list_posts", "list_comments", "list_likes"}
CreateOps == {"create_user", "create_group", "create_post", "create_comment", "like_post"}
ReferenceOps == {"create_post", "create_comment", "like_post"}
CredentialFields == {"password_hash"}

CollectionOf(op) ==
    CASE op = "create_user" -> "user"
      [] op = "create_group" -> "group"
      [] op = "create_post" -> "post"
      [] op = "create_comment" -> "comment"
      [] op = "like_post" -> "like"

\* The body's foreign-key field: group_id for a post, post_id otherwise.
ForeignKey(op, entity) ==
    IF op = "create_post" THEN entity.group_id ELSE entity.post_id

UsersWithEmail(e) == {i \in DOMAIN store["user"] : store["user"][i].email = e}
RegisteredEmails == {x[1] : x \in registered}
Rejected(r, status_code, detail) ==
    r.status = status_code /\ r.detail = detail /\ r.body = <<>>

\* C1: a login with the email and password of a completed registration,
\* the email being that of one stored user only, is answered 200 with that
\* user's sanitized view.
C1_LoginAfterRegisterSucceeds ==
    (/\ last.op = "login"
     /\ <<last.req.email, last.req.password>> \in registered
     /\ Cardinality(UsersWithEmail(last.req.email)) = 1)
    => /\ last.status = 200
       /\ \A i \in UsersWithEmail(last.req.email) :
             last.body = <<to_public(store["user"][i])>>

\* C2: a register request that starts after a register for the same email
\* was answered 200 does not get past the duplicate check: it is answered
\* 400 and the store is as before.
C2_SecondRegisterRejected ==
    [][\A p \in Procs :
          /\ (pc[p] = "idle" /\ pc'[p] = "reg_insert")
                => req'[p].email \notin RegisteredEmails
          /\ (last'.op = "register" /\ pc' = pc
                /\ last'.req.email \in RegisteredEmails)
                => /\ Rejected(last', 400, "Email already registered")
                   /\ store' = store
                   /\ nextOid' = nextOid]_vars

C2_Witness ==
    /\ last.op = "register"
    /\ last.status = 400
    /\ last.req.email \in RegisteredEmails
    /\ Cardinality(UsersWithEmail(last.req.email)) = 1

\* C3: no two records of the user collection have the same email.
C3_EmailUnique ==
    \A i, j \in DOMAIN store["user"] :
        store["user"][i].email = store["user"][j].email => i = j

\* C4: a login is answered 401 "Invalid credentials" when no stored user
\* has the email, and when the first stored user with the email has no
\* digest or another digest than the supplied password's; a 200 answer is
\* the view of a stored user with that email and that password's digest.
C4_LoginRejectsInvalid ==
    last.op = "login" =>
        LET matching == SelectMatching(store["user"], [email |-> last.req.email])
            digest == sha256_hexdigest(last.req.password)
        IN  /\ matching = <<>> => Rejected(last, 401, "Invalid credentials")
            /\ (/\ matching # <<>>
                /\ \/ "password_hash" \notin DOMAIN matching[1]
                   \/ matching[1]["password_hash"] # digest)
               => Rejected(last, 401, "Invalid credentials")
            /\ last.status = 200 =>
                 \E i \in UsersWithEmail(last.req.email) :
                    /\ "password_hash" \in DOMAIN store["user"][i]
                    /\ store["user"][i]["password_hash"] = digest
                    /\ last.body = <<to_public(store["user"][i])>>

C4_Witness ==
    /\ last.op = "login"
    /\ last.status = 401
    /\ \E i \in UsersWithEmail(last.req.email) :
          /\ "password_hash" \in DOMAIN store["user"][i]
          /\ store["user"][i]["password_hash"] # sha256_hexdigest(last.req.password)

\* C5: a create-post, create-comment or create-like step whose body
\* foreign key differs from the path parameter is answered 400 and leaves
\* the store as it was.
C5_MismatchRejectedBeforeWrite ==
    [][(/\ last'.op \in ReferenceOps
        /\ last'.req.path # ForeignKey(last'.op, last'.req.entity))
       => /\ last'.status = 400
          /\ last'.body = <<>>
          /\ store' = store
          /\ nextOid' = nextOid]_vars

C5_Witness ==
    /\ last.op \in ReferenceOps
    /\ last.req.path # ForeignKey(last.op, last.req.entity)
    /\ last.status = 400
    /\ store["post"] # <<>>

\* C6: no record of any response carries a password_hash field.
C6_NoPasswordHashOutward ==
    \A i \in DOMAIN last.body : "password_hash" \notin DOMAIN last.body[i]

C6_Witness ==
    /\ last.op = "list_users"
    /\ \E i \in DOMAIN store["user"], j \in DOMAIN last.body :
          /\ "password_hash" \in DOMAIN store["user"][i]
          /\ last.body[j].id = str(store["user"][i]["_id"])

\* C7: after a create, the filtered read on the returned identifier gives
\* the one record of that identifier, whose sanitized view has that id,
\* every non-credential field of the entity unchanged and no credential
\* field; register's answer is that view of the user it created.
C7_CreateReadRoundTrip ==
    /\ (last.op \in CreateOps /\ last.status = 200) =>
         LET id == last.body[1].id
             coll == CollectionOf(last.op)
             docs == get_documents(store, coll, [_id |-> ObjectId(id)], 1)
         IN  /\ Len(docs) = 1
             /\ Cardinality({i \in DOMAIN store[coll] :
                               store[coll][i]["_id"] = ObjectId(id)}) = 1
             /\ LET view == to_public(docs[1])
                IN  /\ "id" \in DOMAIN view /\ view["id"] = id
                    /\ \A f \in DOMAIN last.req.entity \ CredentialFields :
                          f \in DOMAIN view /\ view[f] = last.req.entity[f]
                    /\ DOMAIN view \cap (CredentialFields \cup {"_id"}) = {}
    /\ (last.op = "register" /\ last.status = 200) =>
         /\ Len(last.body) = 1
         /\ LET view == last.body[1]
            IN  /\ {"id", "name", "email", "role"} \subseteq DOMAIN view
                /\ view["name"] = last.req.name
                /\ view["email"] = last.req.email
                /\ view["role"] = "user"
                /\ DOMAIN view \cap (CredentialFields \cup {"_id"}) = {}
                /\ Cardinality({i \in DOMAIN store["user"] :
                                  str(store["user"][i]["_id"]) = view["id"]}) = 1

C7_Witness ==
    /\ last.op = "register"
    /\ last.status = 200
    /\ Len(store["user"]) = 2

\* C8: a list response has at most `limit` records.
C8_ReadAtMostLimit ==
    last.op \in ListOps => Len(last.body) <= last.req.limit

\* C9: for every stored record, to_public gives a record without _id, with
\* id the string form of _id, without password_hash, with every other field
\* unchanged; a second application changes nothing, and the argument is
\* left as it was.
C9_SanitizerContract ==
    \A c \in Collections : \A i \in DOMAIN store[c] :
        LET doc == store[c][i]
            view == to_public(doc)
            kept == DOMAIN doc \ ({"_id"} \cup CredentialFields)
        IN  /\ DOMAIN view = kept \cup {"id"}
            /\ view["id"] = str(doc["_id"])
            /\ \A f \in kept : view[f] = doc[f]
            /\ to_public(view) = view
            /\ to_public_arg(doc) = doc

C9_Witness ==
    /\ last.op = "login"
    /\ last.status = 200
    /\ \E i \in DOMAIN store["user"] :
          /\ "password_hash" \in DOMAIN store["user"][i]
          /\ last.body = <<to_public(store["user"][i])>>
    /\ Len(store["user"]) = 2

\* C10: every handler makes at most one store call: no request is ever
\* between two of its store calls.
C10_SingleStoreCall ==
    \A p \in Procs : pc[p] = "idle"

====
